---- MODULE Spec2Model ----
(* A model of gofixbuf.Buffer (buffer.go): a fixed-capacity write buffer over a
   caller-supplied slice.  A Go slice is modelled as a record [arr, len]: arr
   is the backing array from the slice's start (so cap(s) = Len(s.arr)) and
   len is len(s).  A Buffer is [buf, off].  The scratch array runeBytes is
   only written and read inside one WriteRune call, so the encoding is passed
   to Write directly.

   Every method is a pure operator from a Buffer and its arguments to an
   outcome [b, n, err, panic]; the actions below apply them to the variable b.
   A Go run-time panic (index or slice bounds out of range) ends the
   behaviour in pc = "panic". *)
EXTENDS Integers, Sequences, FiniteSets, TLC

\* ---------------------------------------------------------------- bounds
MaxCap == 4
MaxData == 2
MaxResets == 1

\* A source may hold more than any buffer can take.
MaxSrc == MaxCap + 1

\* ------------------------------------------------------------- constants
RuneSelf == 128
UTFMax == 4
MaxRune == 1114111
RuneError == 65533
SurrogateMin == 55296
SurrogateMax == 57343

Nil == "nil"
ErrTooLarge == "ErrTooLarge"
EOF == "EOF"
ErrRead == "ErrRead"

\* ------------------------------------------------------------- helpers
Min(x, y) == IF x < y THEN x ELSE y

\* Go's copy(dst[at:at+Len(data)], data) on a backing array; at is 0-based.
Overwrite(arr, at, data) ==
  [i \in 1..Len(arr) |->
     IF i > at /\ i <= at + Len(data) THEN data[i - at] ELSE arr[i]]

\* testBytes[0:k]: 'a' + i%26
TestBytes(k) == [i \in 1..k |-> 97 + ((i - 1) % 26)]

\* ------------------------------------------------------- the Buffer type
ZeroBuffer == [buf |-> [arr |-> << >>, len |-> 0], off |-> 0]

NewBuffer(buf) == [buf |-> buf, off |-> 0]

\* Mutant: the view stops at the cursor, as bytes.Buffer's does.
Bytes_ToCursor(b) == SubSeq(b.buf.arr, 1, b.off)

Bytes(b) == SubSeq(b.buf.arr, 1, b.buf.len)

\* A nil *Buffer, and the text "<nil>" String returns for it.
NilBuffer == [nil |-> TRUE]
NilText == <<60, 110, 105, 108, 62>>

String(b) == IF "nil" \in DOMAIN b THEN NilText ELSE SubSeq(b.buf.arr, 1, b.buf.len)

\* Mutant: Len counts the bytes written, as bytes.Buffer's does.
BufferLen_Cursor(b) == b.off

BufferLen(b) == b.buf.len

Cap(b) == Len(b.buf.arr)

\* Mutant: Reset also clears the storage.
Reset_Clear(b) == [b EXCEPT !.off = 0, !.buf.arr = [i \in 1..Len(b.buf.arr) |-> 0]]

\* Mutant: Reset forgets to rewind the cursor.
Reset_Noop(b) == b

Reset(b) == [b EXCEPT !.off = 0]

\* Mutant: the bound is off by one, one byte too many is let through.
checkLen_OffByOne(b, n) ==
  IF b.off + n > Len(b.buf.arr) + 1
    THEN [m |-> b.off, e |-> ErrTooLarge]
    ELSE [m |-> b.off, e |-> Nil]

\* Mutant: >= for >, a write that exactly fits is refused.
checkLen_Ge(b, n) ==
  IF b.off + n >= Len(b.buf.arr)
    THEN [m |-> b.off, e |-> ErrTooLarge]
    ELSE [m |-> b.off, e |-> Nil]

checkLen(b, n) ==
  IF b.off + n > Len(b.buf.arr)
    THEN [m |-> b.off, e |-> ErrTooLarge]
    ELSE [m |-> b.off, e |-> Nil]

\* Mutant: copy(b.buf, p), the offset forgotten.
Write_AtZero(b, p) ==
  LET c == checkLen(b, Len(p))
      b1 == [b EXCEPT !.off = c.m + Len(p)]
      k == Min(b.buf.len, Len(p))
  IN IF c.e # Nil
       THEN [b |-> b, n |-> 0, err |-> c.e, panic |-> FALSE]
       ELSE [b |-> [b1 EXCEPT !.buf.arr = Overwrite(b.buf.arr, 0, SubSeq(p, 1, k))],
             n |-> k, err |-> Nil, panic |-> FALSE]

\* Mutant: checkLen's error is ignored.
Write_Unchecked(b, p) ==
  LET c == checkLen(b, Len(p))
      b1 == [b EXCEPT !.off = c.m + Len(p)]
      k == Min(b.buf.len - c.m, Len(p))
  IN IF c.m > b.buf.len
       THEN [b |-> b1, n |-> 0, err |-> Nil, panic |-> TRUE]
       ELSE [b |-> [b1 EXCEPT !.buf.arr = Overwrite(b.buf.arr, c.m, SubSeq(p, 1, k))],
             n |-> k, err |-> Nil, panic |-> FALSE]

\* Mutant: a write that does not fit grows the storage, as bytes.Buffer does.
Write_Grow(b, p) ==
  LET c == checkLen(b, Len(p))
      grown == IF c.e # Nil
                 THEN [arr |-> b.buf.arr \o [i \in 1..(b.off + Len(p) - Len(b.buf.arr)) |-> 0],
                       len |-> b.off + Len(p)]
                 ELSE b.buf
      k == Min(grown.len - c.m, Len(p))
  IN IF c.m > grown.len
       THEN [b |-> [b EXCEPT !.off = c.m + Len(p)], n |-> 0, err |-> Nil, panic |-> TRUE]
       ELSE [b |-> [buf |-> [grown EXCEPT !.arr = Overwrite(grown.arr, c.m, SubSeq(p, 1, k))],
                    off |-> c.m + Len(p)],
             n |-> k, err |-> Nil, panic |-> FALSE]

\* b.off is assigned before b.buf[m:] is sliced (to len(b.buf)); the slice
\* expression panics when m > len(b.buf); copy copies min(len(dst), len(p)).
Write(b, p) ==
  LET c == checkLen(b, Len(p))
      b1 == [b EXCEPT !.off = c.m + Len(p)]
      k == Min(b.buf.len - c.m, Len(p))
  IN IF c.e # Nil
       THEN [b |-> b, n |-> 0, err |-> c.e, panic |-> FALSE]
       ELSE IF c.m > b.buf.len
         THEN [b |-> b1, n |-> 0, err |-> Nil, panic |-> TRUE]
         ELSE [b |-> [b1 EXCEPT !.buf.arr = Overwrite(b.buf.arr, c.m, SubSeq(p, 1, k))],
               n |-> k, err |-> Nil, panic |-> FALSE]

WriteString(b, s) ==
  LET c == checkLen(b, Len(s))
      b1 == [b EXCEPT !.off = c.m + Len(s)]
      k == Min(b.buf.len - c.m, Len(s))
  IN IF c.e # Nil
       THEN [b |-> b, n |-> 0, err |-> c.e, panic |-> FALSE]
       ELSE IF c.m > b.buf.len
         THEN [b |-> b1, n |-> 0, err |-> Nil, panic |-> TRUE]
         ELSE [b |-> [b1 EXCEPT !.buf.arr = Overwrite(b.buf.arr, c.m, SubSeq(s, 1, k))],
               n |-> k, err |-> Nil, panic |-> FALSE]

\* b.buf[m] = c panics when m >= len(b.buf), before b.off++.
WriteByte(b, c) ==
  LET r == checkLen(b, 1)
  IN IF r.e # Nil
       THEN [b |-> b, n |-> 0, err |-> r.e, panic |-> FALSE]
       ELSE IF r.m >= b.buf.len
         THEN [b |-> b, n |-> 0, err |-> Nil, panic |-> TRUE]
         ELSE [b |-> [b EXCEPT !.buf.arr = Overwrite(b.buf.arr, r.m, <<c>>),
                               !.off = b.off + 1],
               n |-> 0, err |-> Nil, panic |-> FALSE]

\* utf8.EncodeRune: the UTF-8 bytes of r; a rune out of range (negative as
\* uint32, above MaxRune, or a surrogate) is encoded as RuneError.
EncodeRune(r) ==
  LET enc3(x) == <<224 + (x \div 4096), 128 + ((x \div 64) % 64), 128 + (x % 64)>>
  IN IF r >= 0 /\ r < 128 THEN <<r>>
     ELSE IF r >= 0 /\ r < 2048 THEN <<192 + (r \div 64), 128 + (r % 64)>>
     ELSE IF r < 0 \/ r > MaxRune \/ (r >= SurrogateMin /\ r <= SurrogateMax)
       THEN enc3(RuneError)
     ELSE IF r < 65536 THEN enc3(r)
     ELSE <<240 + (r \div 262144), 128 + ((r \div 4096) % 64),
            128 + ((r \div 64) % 64), 128 + (r % 64)>>

\* Mutant: the inner Write's error is returned.
WriteRune_Checked(b, r) ==
  IF r < RuneSelf
    THEN LET w == WriteByte(b, r % 256)
         IN [b |-> w.b, n |-> 1, err |-> Nil, panic |-> w.panic]
    ELSE LET enc == EncodeRune(r)
             w == Write(b, enc)
         IN [b |-> w.b, n |-> w.n, err |-> w.err, panic |-> w.panic]

\* The results of the inner WriteByte and Write are discarded; only a panic
\* of theirs propagates.  byte(r) is r mod 256.
WriteRune(b, r) ==
  IF r < RuneSelf
    THEN LET w == WriteByte(b, r % 256)
         IN [b |-> w.b, n |-> 1, err |-> Nil, panic |-> w.panic]
    ELSE LET enc == EncodeRune(r)
             w == Write(b, enc)
         IN [b |-> w.b, n |-> Len(enc), err |-> Nil, panic |-> w.panic]

\* ------------------------------------------------------------ the readers
\* A reader is [kind, pos, size]: it serves testBytes[pos:size], pos being
\* what it has served so far.  What it may answer to Read(p) with len(p) = w
\* is [m, e, data]: data are the bytes it has to serve, the first m of which
\* it stored in p.  "bytes" is bytes.Buffer (the tests' source): drained, it
\* answers (0, nil) to an empty p and (0, EOF) otherwise.  "any" is any
\* reader that respects 0 <= m <= len(p): it may stop short, and report an
\* error or end-of-data along with bytes.
Unread(rd) == [i \in 1..(rd.size - rd.pos) |-> 97 + ((rd.pos + i - 1) % 26)]

\* Mutant: a drained bytes.Buffer reports end-of-data to an empty p too.
Read_EofOnEmpty(rd, w) ==
  IF rd.kind = "bytes"
    THEN IF rd.size - rd.pos = 0
           THEN {[m |-> 0, e |-> EOF, data |-> << >>]}
           ELSE {[m |-> Min(w, rd.size - rd.pos), e |-> Nil, data |-> Unread(rd)]}
    ELSE {[m |-> m, e |-> e, data |-> Unread(rd)] :
             m \in 0..Min(w, rd.size - rd.pos), e \in {Nil, EOF, ErrRead}}

Read(rd, w) ==
  IF rd.kind = "bytes"
    THEN IF rd.size - rd.pos = 0
           THEN {[m |-> 0, e |-> IF w = 0 THEN Nil ELSE EOF, data |-> << >>]}
           ELSE {[m |-> Min(w, rd.size - rd.pos), e |-> Nil, data |-> Unread(rd)]}
    ELSE {[m |-> m, e |-> e, data |-> Unread(rd)] :
             m \in 0..Min(w, rd.size - rd.pos), e \in {Nil, EOF, ErrRead}}

\* Mutant: the first Read that answers (0, nil) does not end the loop.
RECURSIVE ReadFromLoop_Again(_, _, _, _)
ReadFromLoop_Again(b, n, rd, pulls) ==
  IF b.off > Len(b.buf.arr)
    THEN {[b |-> b, n |-> n, err |-> Nil, panic |-> TRUE, pulls |-> pulls, rd |-> rd]}
    ELSE UNION {
      LET b1 == [b EXCEPT !.buf.arr = Overwrite(b.buf.arr, b.off, SubSeq(a.data, 1, a.m)),
                          !.off = b.off + a.m]
          rd1 == [rd EXCEPT !.pos = @ + a.m]
          pulls1 == Append(pulls, [m |-> a.m, e |-> a.e])
      IN IF a.e # Nil \/ (a.m = 0 /\ pulls # << >> /\ pulls[Len(pulls)].m = 0)
           THEN {[b |-> b1, n |-> n + a.m, err |-> a.e, panic |-> FALSE,
                  pulls |-> pulls1, rd |-> rd1]}
           ELSE ReadFromLoop_Again(b1, n + a.m, rd1, pulls1)
      : a \in Read(rd, Len(b.buf.arr) - b.off)}

\* Mutant: n = int64(m) instead of n += int64(m).
RECURSIVE ReadFromLoop_LastCount(_, _, _, _)
ReadFromLoop_LastCount(b, n, rd, pulls) ==
  IF b.off > Len(b.buf.arr)
    THEN {[b |-> b, n |-> n, err |-> Nil, panic |-> TRUE, pulls |-> pulls, rd |-> rd]}
    ELSE UNION {
      LET b1 == [b EXCEPT !.buf.arr = Overwrite(b.buf.arr, b.off, SubSeq(a.data, 1, a.m)),
                          !.off = b.off + a.m]
          rd1 == [rd EXCEPT !.pos = @ + a.m]
          pulls1 == Append(pulls, [m |-> a.m, e |-> a.e])
      IN IF a.e # Nil \/ a.m = 0
           THEN {[b |-> b1, n |-> a.m, err |-> a.e, panic |-> FALSE,
                  pulls |-> pulls1, rd |-> rd1]}
           ELSE ReadFromLoop_LastCount(b1, a.m, rd1, pulls1)
      : a \in Read(rd, Len(b.buf.arr) - b.off)}

\* ReadFrom's loop.  Each pass reads into the window b.buf[b.off:cap(b.buf)]
\* (the slice expression panics when b.off > cap(b.buf)), adds the m bytes
\* read to b.off and to n, and returns (n, e) when e # nil or m = 0.  The
\* result is the set of outcomes the reader rd allows; pulls lists what each
\* Read call made so far answered, [m, e], and rd is the reader as the loop
\* leaves it.
RECURSIVE ReadFromLoop(_, _, _, _)
ReadFromLoop(b, n, rd, pulls) ==
  IF b.off > Len(b.buf.arr)
    THEN {[b |-> b, n |-> n, err |-> Nil, panic |-> TRUE, pulls |-> pulls, rd |-> rd]}
    ELSE UNION {
      LET b1 == [b EXCEPT !.buf.arr = Overwrite(b.buf.arr, b.off, SubSeq(a.data, 1, a.m)),
                          !.off = b.off + a.m]
          rd1 == [rd EXCEPT !.pos = @ + a.m]
          pulls1 == Append(pulls, [m |-> a.m, e |-> a.e])
      IN IF a.e # Nil \/ a.m = 0
           THEN {[b |-> b1, n |-> n + a.m, err |-> a.e, panic |-> FALSE,
                  pulls |-> pulls1, rd |-> rd1]}
           ELSE ReadFromLoop(b1, n + a.m, rd1, pulls1)
      : a \in Read(rd, Len(b.buf.arr) - b.off)}

\* Mutant: end-of-data is not returned as an error, as in bytes.Buffer's
\* ReadFrom.
ReadFrom_DropEOF(b, rd) ==
  {[o EXCEPT !.err = IF @ = EOF THEN Nil ELSE @] : o \in ReadFromLoop(b, 0, rd, << >>)}

\* Mutant: reading into a buffer that is or becomes full is ErrTooLarge.
ReadFrom_FullIsError(b, rd) ==
  {[o EXCEPT !.err = IF @ = Nil /\ o.b.off = Len(o.b.buf.arr) THEN ErrTooLarge ELSE @] :
     o \in ReadFromLoop(b, 0, rd, << >>)}

ReadFrom(b, rd) == ReadFromLoop(b, 0, rd, << >>)

\* ----------------------------------------------------------------- inputs
FillBytes == {65}
DataBytes == {97}
Runes == {97, 233, 8364, 128512}

\* The inputs of Write and WriteString: data[0:n] of the tests.
Data == {TestBytes(n) : n \in 0..MaxData}

\* The slices NewBuffer is given: of every capacity up to MaxCap, and of
\* length 0 (spare capacity only, as NewBuffer's comment recommends),
\* capacity - 1 or capacity (no spare capacity, as in most tests).
Regions ==
  UNION {{[arr |-> [i \in 1..c |-> f], len |-> l] :
            l \in {0, c - 1, c} \cap (0..c), f \in FillBytes} : c \in 0..MaxCap}

Readers ==
  {[kind |-> "bytes", pos |-> 0, size |-> n] : n \in 0..MaxSrc}
    \cup {[kind |-> "any", pos |-> 0, size |-> MaxSrc]}

\* ------------------------------------------------------------------ state
VARIABLES
  b,        \* the Buffer
  pc,       \* "idle" | "panic"
  ret,      \* the last call: [op, arg, n, err, pulls]
  ctor,     \* "zero" (a zero-value Buffer) | "NewBuffer"
  region,   \* the slice the buffer was constructed over
  written,  \* the bytes accepted since construction or the last Reset
  fresh,    \* after a Reset: a newly constructed buffer given the same calls
  resets    \* the number of Reset calls so far

vars == <<b, pc, ret, ctor, region, written, fresh, resets>>

NoTwin == [on |-> FALSE, b |-> ZeroBuffer, n |-> 0, err |-> Nil, panic |-> FALSE, total |-> 0]

WriteOps == {"Write", "WriteString", "WriteByte", "WriteRune"}

Init ==
  /\ \/ /\ ctor = "zero"
        /\ b = ZeroBuffer
        /\ region = ZeroBuffer.buf
     \/ /\ ctor = "NewBuffer"
        /\ region \in Regions
        /\ b = NewBuffer(region)
  /\ pc = "idle"
  /\ ret = [op |-> "new", arg |-> 0, n |-> 0, err |-> Nil, pulls |-> << >>]
  /\ written = << >>
  /\ fresh = NoTwin
  /\ resets = 0

\* The twin buffer: the same call applied to a buffer constructed anew (over
\* zeroed storage of the same length and capacity) at the last Reset.  It is
\* followed for as long as the calls since the Reset ask for at most Cap(b)
\* bytes in total.
FreshRegion(x) == [arr |-> [i \in 1..Len(x.buf.arr) |-> 0], len |-> x.buf.len]

Twin(out, asked) ==
  IF ~fresh.on \/ fresh.panic \/ fresh.total + asked > Cap(b)
    THEN NoTwin
    ELSE [on |-> TRUE, b |-> out.b, n |-> out.n, err |-> out.err, panic |-> out.panic,
          total |-> fresh.total + asked]

\* A call returned: out is its outcome, data the bytes it was asked to write,
\* which count as written when the call moved the cursor past them.
Return(op, arg, out, data) ==
  /\ b' = out.b
  /\ pc' = IF out.panic THEN "panic" ELSE "idle"
  /\ ret' = [op |-> op, arg |-> arg, n |-> out.n, err |-> out.err, pulls |-> << >>]
  /\ written' = IF out.err = Nil /\ ~out.panic /\ out.b.off = b.off + Len(data)
                  THEN written \o data ELSE written
  /\ UNCHANGED <<ctor, region, resets>>

CallWrite(p) ==
  /\ pc = "idle"
  /\ Return("Write", Len(p), Write(b, p), p)
  /\ fresh' = Twin(Write(fresh.b, p), Len(p))

CallWriteString(s) ==
  /\ pc = "idle"
  /\ Return("WriteString", Len(s), WriteString(b, s), s)
  /\ fresh' = Twin(WriteString(fresh.b, s), Len(s))

CallWriteByte(c) ==
  /\ pc = "idle"
  /\ Return("WriteByte", c, WriteByte(b, c), <<c>>)
  /\ fresh' = Twin(WriteByte(fresh.b, c), 1)

CallWriteRune(r) ==
  /\ pc = "idle"
  /\ Return("WriteRune", r, WriteRune(b, r),
            IF r < RuneSelf THEN <<r % 256>> ELSE EncodeRune(r))
  /\ fresh' = Twin(WriteRune(fresh.b, r),
                   IF r < RuneSelf THEN 1 ELSE Len(EncodeRune(r)))

CallReset ==
  /\ pc = "idle"
  /\ resets < MaxResets
  /\ resets' = resets + 1
  /\ b' = Reset(b)
  /\ ret' = [op |-> "Reset", arg |-> 0, n |-> 0, err |-> Nil, pulls |-> << >>]
  /\ written' = << >>
  /\ fresh' = [on |-> TRUE, b |-> NewBuffer(FreshRegion(b)), n |-> 0, err |-> Nil,
               panic |-> FALSE, total |-> 0]
  /\ UNCHANGED <<pc, ctor, region>>

\* ReadFrom(rd) runs to its return.  arg is the window it started with,
\* pulls what its Read calls answered.
CallReadFrom(rd) ==
  /\ pc = "idle"
  /\ \E out \in ReadFrom(b, rd) :
       /\ b' = out.b
       /\ pc' = IF out.panic THEN "panic" ELSE "idle"
       /\ ret' = [op |-> "ReadFrom", arg |-> Len(b.buf.arr) - b.off, n |-> out.n,
                  err |-> out.err, pulls |-> out.pulls]
       /\ written' = written \o SubSeq(out.b.buf.arr, b.off + 1, out.b.off)
  /\ fresh' = NoTwin
  /\ UNCHANGED <<ctor, region, resets>>

Next ==
  \/ \E p \in Data : CallWrite(p)
  \/ \E s \in Data : CallWriteString(s)
  \/ \E c \in DataBytes : CallWriteByte(c)
  \/ \E r \in Runes : CallWriteRune(r)
  \/ CallReset
  \/ \E rd \in Readers : CallReadFrom(rd)

Spec == Init /\ [][Next]_vars

\* ------------------------------------------------------------ properties

C2_Original ==
  [][(ret'.op \in {"Write", "WriteString"} /\ b.buf.len = Cap(b)
        /\ b.off + ret'.arg <= Cap(b))
       => (ret'.err = Nil /\ ret'.n = ret'.arg /\ Bytes(b') = written')]_vars

\* C2, amended: ... succeeds, returns its input's length and advances the
\* cursor by it; the first cursor bytes of Bytes() are then the concatenation
\* of the inputs written so far, and Bytes() is the whole region of C bytes.
C2_WrittenPrefix ==
  [][(ret'.op \in {"Write", "WriteString"} /\ b.buf.len = Cap(b)
        /\ b.off + ret'.arg <= Cap(b))
       => (ret'.err = Nil /\ ret'.n = ret'.arg /\ pc' = "idle"
           /\ b'.off = b.off + ret'.arg
           /\ SubSeq(Bytes(b'), 1, b'.off) = written'
           /\ Len(Bytes(b')) = Cap(b))]_vars

C2_Witness ==
  /\ ret.op = "WriteString" /\ ret.err = Nil /\ ret.n = MaxData
  /\ resets = 0
  /\ b.buf.len = Cap(b)
  /\ Len(written) > MaxData
  /\ b.off < Cap(b)

LenAgree ==
  /\ BufferLen(b) = Len(Bytes(b))
  /\ BufferLen(b) = Len(String(b))
  /\ BufferLen(b) = region.len
  /\ Bytes(b) = SubSeq(b.buf.arr, 1, region.len)

PrefixWritten ==
  \A i \in 1..Min(b.off, Len(Bytes(b))) : i <= Len(written) /\ Bytes(b)[i] = written[i]

C4_WholeRegion ==
  /\ LenAgree /\ PrefixWritten
  /\ [][/\ LenAgree' /\ PrefixWritten'
        /\ \A i \in (b'.off + 1)..Len(Bytes(b')) : Bytes(b')[i] = Bytes(b)[i]]_vars

C4_Witness ==
  /\ resets > 0
  /\ ret.op = "Write" /\ ret.err = Nil
  /\ 0 < b.off /\ b.off < BufferLen(b)
  /\ Bytes(b)[b.off + 1] \notin FillBytes

\* C5: no call panics.
C5_NoPanic == pc # "panic"

\* C6: 0 <= cursor <= capacity in every state, failed calls included.
C6_CursorBound == 0 <= b.off /\ b.off <= Cap(b)

C6_Witness ==
  /\ ret.err = ErrTooLarge
  /\ b.off = Cap(b) /\ Cap(b) > 1
  /\ resets > 0

\* C7 as stated: Reset sets the cursor to 0 and changes neither the storage
\* nor Cap(); after it Len() = 0 and Bytes() is empty.
C7_Original ==
  [][ret'.op = "Reset"
       => (b'.off = 0 /\ b'.buf = b.buf /\ Cap(b') = Cap(b)
           /\ BufferLen(b') = 0 /\ Bytes(b') = << >>)]_vars

\* C7, amended: Reset sets the cursor to 0 and changes neither the storage
\* nor Cap(), nor Len() nor Bytes(): after it Bytes() is still the whole
\* region, the bytes written before included.
C7_ResetRewindsOnly ==
  [][ret'.op = "Reset"
       => (b'.off = 0 /\ b'.buf = b.buf /\ Cap(b') = Cap(b)
           /\ BufferLen(b') = BufferLen(b) /\ Bytes(b') = Bytes(b)
           /\ BufferLen(b') = region.len)]_vars

C7_Witness ==
  /\ ret.op = "Reset"
  /\ b.off = 0
  /\ BufferLen(b) > 1
  /\ Bytes(b) # SubSeq(region.arr, 1, region.len)

\* C8: after a Reset, calls that ask for Cap() bytes in total give, call by
\* call, the results (count, error, panic) and the cursor they give on a
\* buffer constructed anew with the same length and capacity; once they
\* total exactly Cap(), both have the same Bytes(), made of the new bytes
\* only.
C8_ResetIsFresh ==
  fresh.on =>
    /\ fresh.n = ret.n /\ fresh.err = ret.err
    /\ fresh.panic = (pc = "panic")
    /\ fresh.b.off = b.off
    /\ fresh.total = Cap(b) =>
         /\ Bytes(b) = Bytes(fresh.b)
         /\ Bytes(b) = SubSeq(written, 1, BufferLen(b))

C8_Witness ==
  /\ fresh.on /\ fresh.total = Cap(b)
  /\ ret.op = "WriteRune" /\ ret.n > 1
  /\ BufferLen(b) = Cap(b) /\ Cap(b) > 2
  /\ Bytes(b) = written

\* C9 as stated: a zero-value Buffer has Cap() = 0 and every write to it
\* fails with ErrTooLarge and writes 0 bytes, the cursor staying 0.
C9_Original ==
  ctor = "zero" =>
    /\ Cap(b) = 0 /\ b.off = 0
    /\ ret.op \in WriteOps => (ret.err = ErrTooLarge /\ ret.n = 0)

\* C9, amended: a zero-value Buffer has Cap() = 0; Write and WriteString of
\* a non-empty input return (0, ErrTooLarge) and WriteByte returns
\* ErrTooLarge; Write and WriteString of an empty input return (0, nil) and
\* WriteRune returns (the length of the encoding, nil); no call panics,
\* writes a byte or moves the cursor from 0.
C9_ZeroValue ==
  ctor = "zero" =>
    /\ Cap(b) = 0 /\ b.off = 0 /\ pc = "idle"
    /\ Bytes(b) = << >> /\ written = << >>
    /\ ret.op \in {"Write", "WriteString"} =>
         /\ ret.n = 0
         /\ ret.err = IF ret.arg > 0 THEN ErrTooLarge ELSE Nil
    /\ ret.op = "WriteByte" => ret.err = ErrTooLarge
    /\ ret.op = "WriteRune" =>
         /\ ret.err = Nil
         /\ ret.n = IF ret.arg < RuneSelf THEN 1 ELSE Len(EncodeRune(ret.arg))

C9_Witness ==
  /\ ctor = "zero"
  /\ ret.op = "WriteRune" /\ ret.n = 3 /\ ret.err = Nil
  /\ b.off = 0

\* C10: Cap() is what it was at construction, whatever calls were made.
C10_CapConstant == Cap(b) = Len(region.arr)

C10_Witness ==
  /\ ret.op = "WriteString" /\ ret.err = ErrTooLarge
  /\ resets > 0
  /\ Cap(b) > 1 /\ Cap(b) = Len(region.arr)
  /\ b.off > 0

\* WriteByte(c) and Write of the one-byte slice [c], applied to the same
\* buffer: both fail with ErrTooLarge and leave the buffer as it was, which
\* happens exactly when the cursor is at capacity, or both succeed, store c
\* at storage[cursor] and advance the cursor by 1; the buffers they leave are
\* identical.
ByteIsWrite(c) ==
  LET w == WriteByte(b, c)
      v == Write(b, <<c>>)
  IN /\ ~w.panic /\ ~v.panic
     /\ w.err = v.err /\ w.b = v.b
     /\ (w.err = ErrTooLarge) <=> (b.off = Cap(b))
     /\ w.err = ErrTooLarge => w.b = b
     /\ w.err # ErrTooLarge =>
          /\ w.err = Nil /\ v.n = 1
          /\ w.b = [b EXCEPT !.buf.arr = Overwrite(b.buf.arr, b.off, <<c>>),
                             !.off = b.off + 1]

\* C11: from any reachable state, WriteByte(c) is equivalent to Write of the
\* one-byte slice [c].
C11_ByteIsWrite == pc = "idle" => \A c \in DataBytes : ByteIsWrite(c)

\* The equivalence of C11 on the buffers without spare capacity
\* (len(b.buf) = cap(b.buf)).
C11_WithoutSpare ==
  (pc = "idle" /\ b.buf.len = Cap(b)) => \A c \in DataBytes : ByteIsWrite(c)

\* C12: WriteRune of a code point below RuneSelf always returns (1, nil):
\* with the cursor below capacity it stores the byte at storage[cursor] and
\* advances the cursor by 1; with the cursor at capacity it leaves cursor and
\* storage unchanged.
C12_AsciiRune ==
  [][(ret'.op = "WriteRune" /\ ret'.arg < RuneSelf)
       => /\ pc' = "idle"
          /\ ret'.n = 1 /\ ret'.err = Nil
          /\ b.off < Cap(b) =>
               b' = [b EXCEPT !.buf.arr = Overwrite(b.buf.arr, b.off, <<ret'.arg>>),
                              !.off = b.off + 1]
          /\ b.off = Cap(b) => b' = b]_vars

\* The statement of C12 on the buffers without spare capacity.
C12_WithoutSpare ==
  [][(ret'.op = "WriteRune" /\ ret'.arg < RuneSelf /\ b.buf.len = Cap(b))
       => /\ pc' = "idle"
          /\ ret'.n = 1 /\ ret'.err = Nil
          /\ b.off < Cap(b) =>
               b' = [b EXCEPT !.buf.arr = Overwrite(b.buf.arr, b.off, <<ret'.arg>>),
                              !.off = b.off + 1]
          /\ b.off = Cap(b) => b' = b]_vars

\* C13 as stated: for a code point with an encoding of n bytes, n in 2..4,
\* WriteRune's error is nil exactly when cursor + n <= capacity, and
\* ErrTooLarge when the encoding does not fit, nothing being written and the
\* cursor unchanged.
C13_Original ==
  [][(ret'.op = "WriteRune" /\ ret'.arg >= RuneSelf)
       => LET n == Len(EncodeRune(ret'.arg))
          IN /\ (ret'.err = Nil) <=> (b.off + n <= Cap(b))
             /\ b.off + n > Cap(b) => (ret'.err = ErrTooLarge /\ b' = b)]_vars

\* C13, amended: for a code point with an encoding of n bytes, n in 2..4,
\* WriteRune never returns an error: a call that returns, returns the count
\* n and nil whether or not the encoding fitted; when cursor + n > capacity
\* the call returns (n, nil) with nothing written and the cursor unchanged.
C13_ErrorAlwaysNil ==
  [][(ret'.op = "WriteRune" /\ ret'.arg >= RuneSelf)
       => LET n == Len(EncodeRune(ret'.arg))
          IN /\ n \in 2..UTFMax
             /\ pc' = "idle" => (ret'.n = n /\ ret'.err = Nil)
             /\ b.off + n > Cap(b) =>
                  (pc' = "idle" /\ b' = b /\ written' = written)]_vars

C13_Witness ==
  /\ pc = "idle"
  /\ ret.op = "WriteRune" /\ ret.arg >= RuneSelf
  /\ ret.n > Cap(b) /\ ret.err = Nil
  /\ b.off > 0

\* C14: a WriteRune call whose encoding fits in the capacity that is left
\* (as every call of a sequence of cumulative encoded size within the
\* capacity does) returns (n, nil), n being the length of the rune's UTF-8
\* encoding, and appends exactly those n bytes at the cursor in that one
\* step, so that the written prefix is the concatenation of the encodings;
\* an encoding is never written in part.
C14_RunesAppend ==
  [][(ret'.op = "WriteRune" /\ b.off + Len(EncodeRune(ret'.arg)) <= Cap(b))
       => LET enc == EncodeRune(ret'.arg)
          IN /\ pc' = "idle"
             /\ ret'.n = Len(enc) /\ ret'.err = Nil
             /\ b' = [b EXCEPT !.buf.arr = Overwrite(b.buf.arr, b.off, enc),
                               !.off = b.off + Len(enc)]
             /\ written' = written \o enc
             /\ written = SubSeq(b.buf.arr, 1, b.off)
                  => written' = SubSeq(b'.buf.arr, 1, b'.off)]_vars

\* The statement of C14 on the buffers without spare capacity.
C14_WithoutSpare ==
  [][(/\ ret'.op = "WriteRune" /\ b.off + Len(EncodeRune(ret'.arg)) <= Cap(b)
      /\ b.buf.len = Cap(b))
       => LET enc == EncodeRune(ret'.arg)
          IN /\ pc' = "idle"
             /\ ret'.n = Len(enc) /\ ret'.err = Nil
             /\ b' = [b EXCEPT !.buf.arr = Overwrite(b.buf.arr, b.off, enc),
                               !.off = b.off + Len(enc)]
             /\ written' = written \o enc
             /\ written = SubSeq(b.buf.arr, 1, b.off)
                  => written' = SubSeq(b'.buf.arr, 1, b'.off)]_vars

\* The bytes.Buffer readers among the inputs: one holding rd.size bytes.
BytesReaders == {rd \in Readers : rd.kind = "bytes"}

\* C15 as stated: ReadFrom into a freshly constructed buffer of capacity C,
\* from a bytes.Buffer holding exactly C bytes, returns (C, io.EOF), and
\* Bytes() equals all C source bytes.
C15_Original ==
  (pc = "idle" /\ ret.op = "new")
    => \A rd \in BytesReaders :
         rd.size = Cap(b)
           => \A out \in ReadFrom(b, rd) :
                /\ out.n = Cap(b) /\ out.err = EOF
                /\ Bytes(out.b) = Unread(rd)

\* C15, amended: ReadFrom into a freshly constructed buffer of capacity C,
\* from a bytes.Buffer holding exactly C bytes, returns (C, nil): the Read
\* that follows the last byte is given the empty window of the full buffer
\* and bytes.Buffer answers it (0, nil), not end-of-data.  storage[0:C] then
\* holds all C source bytes; Bytes(), which is storage[0:len] of the region
\* the buffer was constructed over, is their first len bytes, all of them
\* when the region has length C.
C15_ExactFillIsNil ==
  (pc = "idle" /\ ret.op = "new")
    => \A rd \in BytesReaders :
         rd.size = Cap(b)
           => \A out \in ReadFrom(b, rd) :
                /\ ~out.panic
                /\ out.n = Cap(b) /\ out.err = Nil
                /\ out.pulls[Len(out.pulls)] = [m |-> 0, e |-> Nil]
                /\ out.b.off = Cap(b)
                /\ out.b.buf.arr = Unread(rd)
                /\ Bytes(out.b) = SubSeq(Unread(rd), 1, region.len)
                /\ region.len = Cap(b) => Bytes(out.b) = Unread(rd)

C15_Witness ==
  /\ pc = "idle" /\ resets = 0
  /\ ret.op = "ReadFrom" /\ ret.arg = Cap(b) /\ Cap(b) >= 2
  /\ ret.n = Cap(b) /\ ret.err = Nil
  /\ ret.pulls = <<[m |-> Cap(b), e |-> Nil], [m |-> 0, e |-> Nil]>>
  /\ Bytes(b) = TestBytes(Cap(b))

C17_LongSource ==
  pc = "idle"
    => \A rd \in BytesReaders :
         /\ rd.size > Cap(b) - b.off
              => \A out \in ReadFrom(b, rd) :
                   /\ ~out.panic
                   /\ out.n = Cap(b) - b.off /\ out.err = Nil
                   /\ out.b.off = Cap(b)
                   /\ out.b.buf.arr = Overwrite(b.buf.arr, b.off,
                                                SubSeq(Unread(rd), 1, Cap(b) - b.off))
                   /\ out.rd.pos = Cap(b) - b.off
                   /\ \A again \in ReadFrom(out.b, out.rd) :
                        /\ ~again.panic
                        /\ again.n = 0 /\ again.err = Nil
                        /\ again.b = out.b /\ again.rd = out.rd
         /\ b.off = Cap(b)
              => \A out \in ReadFrom(b, rd) :
                   /\ ~out.panic
                   /\ out.n = 0 /\ out.err = Nil
                   /\ out.b = b /\ out.rd = rd

C17_Witness ==
  /\ pc = "idle" /\ resets = 0
  /\ ret.op = "ReadFrom" /\ ret.arg = 0
  /\ ret.n = 0 /\ ret.err = Nil
  /\ b.off = Cap(b) /\ Cap(b) >= 2
  /\ b.buf.arr = TestBytes(Cap(b))

\* C18: ReadFrom terminates: with a source whose every Read returns between
\* 0 and len(p) bytes, the loop ends after at most (capacity - cursor at
\* entry) + 1 Reads.
C18_PullsBounded ==
  ret.op = "ReadFrom"
    => /\ Len(ret.pulls) >= 1
       /\ Len(ret.pulls) <= ret.arg + 1
       /\ \A i \in 1..Len(ret.pulls) : ret.pulls[i].m \in 0..ret.arg

C18_Witness ==
  /\ pc = "idle"
  /\ ret.op = "ReadFrom" /\ ret.arg >= 3
  /\ Len(ret.pulls) = ret.arg + 1

\* The bytes the Reads of a ReadFrom call returned, in total.
RECURSIVE SumPulls(_)
SumPulls(s) == IF s = << >> THEN 0 ELSE s[1].m + SumPulls(Tail(s))

C20_NilMeansAllWritten ==
  [][(/\ ret'.op \in {"Write", "WriteString"} /\ ctor = "NewBuffer"
      /\ pc' = "idle" /\ ret'.err = Nil)
       => /\ ret'.n = ret'.arg
          /\ b'.off = b.off + ret'.n
          /\ written' = written \o SubSeq(b'.buf.arr, b.off + 1, b.off + ret'.n)
          /\ \A i \in 1..Cap(b) :
               (i <= b.off \/ i > b.off + ret'.n) => b'.buf.arr[i] = b.buf.arr[i]]_vars

\* The statement of C20 on the buffers without spare capacity.
C20_WithoutSpare ==
  [][(/\ ret'.op \in {"Write", "WriteString"} /\ ctor = "NewBuffer"
      /\ pc' = "idle" /\ ret'.err = Nil /\ b.buf.len = Cap(b))
       => /\ ret'.n = ret'.arg
          /\ b'.off = b.off + ret'.n
          /\ written' = written \o SubSeq(b'.buf.arr, b.off + 1, b.off + ret'.n)
          /\ \A i \in 1..Cap(b) :
               (i <= b.off \/ i > b.off + ret'.n) => b'.buf.arr[i] = b.buf.arr[i]]_vars

TypeOK ==
  /\ pc \in {"idle", "panic"}
  /\ ctor \in {"zero", "NewBuffer"}
  /\ b.off \in Nat
  /\ b.buf.len \in 0..Len(b.buf.arr)
====
